---- MODULE Spec2Model ----
(***************************************************************************)
(* Model of the MAE calculator (mae_calculator.py) and of a caller that    *)
(* builds its arguments and invokes its three entry points:                *)
(*   calculate_mae(ai_scores, human_scores)                                 *)
(*   interpret_mae(mae)                                                     *)
(*   calculate_batch_mae(chats)                                             *)
(* Floats are modelled as exact fractions [num, den] with den > 0.         *)
(***************************************************************************)
EXTENDS Integers, Sequences, FiniteSets, TLC

VARIABLES
    pc,            \* "idle" | "ready" | "loop" | "returned" | "raised"
    op,            \* the entry point the caller is using, or "none"
    ai_scores,     \* first argument of calculate_mae
    human_scores,  \* second argument of calculate_mae
    mae,           \* argument of interpret_mae
    chats,         \* argument of calculate_batch_mae
    results,       \* calculate_batch_mae's local list
    idx,           \* position of calculate_batch_mae's for loop in chats
    ret,           \* value returned to the caller
    exc            \* exception that reached the caller

vars == <<pc, op, ai_scores, human_scores, mae, chats, results, idx, ret, exc>>

----------------------------------------------------------------------------
(* Bounds of the model *)

MaxKpis == 2
MaxScore == 2
MaxChats == 2
BatchMaxScore == 1
MaxHundredths == 120
NegHundredths == 5

----------------------------------------------------------------------------
(* Values *)

KPIS == <<"IssueIdentification", "ResolutionCompliance", "Clarity",
          "Retention", "Sentiment", "CustomerCentricity">>

Rat(n, d) == [num |-> n, den |-> d]

RatLt(r, s) == r.num * s.den < s.num * r.den

RatEq(r, s) == r.num * s.den = s.num * r.den

RatAdd(r, s) == Rat(r.num * s.den + s.num * r.den, r.den * s.den)

None == [kind |-> "None"]

EmptyDict == [k \in {} |-> 0]

MismatchError == [kind |-> "ValueError",
                  args |-> <<"AI and human scores must have the same KPIs">>]

MAEResult(m, total, n, diffs, interp) ==
    [kind |-> "MAEResult", mae |-> m, total_difference |-> total,
     num_kpis |-> n, kpi_differences |-> diffs, interpretation |-> interp]

----------------------------------------------------------------------------
(* interpret_mae *)

interpret_mae_le75(m) ==
    IF RatLt(m, Rat(50, 100)) THEN "Excellent (matches human analyst very closely)"
    ELSE IF ~RatLt(Rat(75, 100), m) THEN "Good (production-ready)"
    ELSE IF RatLt(m, Rat(100, 100)) THEN "Acceptable (needs minor calibration)"
    ELSE "Poor (needs major fixes)"

interpret_mae_le50(m) ==
    IF ~RatLt(Rat(50, 100), m) THEN "Excellent (matches human analyst very closely)"
    ELSE IF RatLt(m, Rat(75, 100)) THEN "Good (production-ready)"
    ELSE IF RatLt(m, Rat(100, 100)) THEN "Acceptable (needs minor calibration)"
    ELSE "Poor (needs major fixes)"

interpret_mae(m) ==
    IF RatLt(m, Rat(50, 100)) THEN "Excellent (matches human analyst very closely)"
    ELSE IF RatLt(m, Rat(75, 100)) THEN "Good (production-ready)"
    ELSE IF RatLt(m, Rat(100, 100)) THEN "Acceptable (needs minor calibration)"
    ELSE "Poor (needs major fixes)"

----------------------------------------------------------------------------
(* calculate_mae *)

KeysDiffer_subset(ai, human) == ~(DOMAIN ai \subseteq DOMAIN human)

KeysDiffer_strict(ai, human) == DOMAIN ai # DOMAIN human \/ DOMAIN ai = {}

KeysDiffer(ai, human) == DOMAIN ai # DOMAIN human

Diff_signed(a, h) == a - h

Diff_onesided(a, h) == IF a > h THEN a - h ELSE 0

Diff(a, h) == IF a - h < 0 THEN -(a - h) ELSE a - h

\* The for loop over ai_scores.keys(): the differences recorded and their sum.
RECURSIVE LoopKpis(_, _, _, _)
LoopKpis(keys, ai, human, acc) ==
    IF keys = {} THEN acc
    ELSE LET kpi == CHOOSE k \in keys : TRUE
             diff == Diff(ai[kpi], human[kpi])
         IN  LoopKpis(keys \ {kpi}, ai, human,
                 [kpi_differences |->
                      [k \in DOMAIN acc.kpi_differences \cup {kpi} |->
                          IF k = kpi THEN diff ELSE acc.kpi_differences[k]],
                  total_difference |-> acc.total_difference + diff])

\* The outcome of a call: what it raised or returned, and the two argument
\* objects as the call leaves them.
calculate_mae_aliased(ai, human) ==
    IF KeysDiffer(ai, human)
    THEN [raised |-> TRUE, exc |-> MismatchError, value |-> None,
          ai_scores |-> ai, human_scores |-> human]
    ELSE LET acc == LoopKpis(DOMAIN ai, ai, human,
                        [kpi_differences |-> ai, total_difference |-> 0])
             num_kpis == Cardinality(DOMAIN ai)
             m == IF num_kpis > 0 THEN Rat(acc.total_difference, num_kpis)
                  ELSE Rat(0, 1)
         IN  [raised |-> FALSE, exc |-> None,
              value |-> MAEResult(m, acc.total_difference, num_kpis,
                                  acc.kpi_differences, interpret_mae(m)),
              ai_scores |-> acc.kpi_differences, human_scores |-> human]

calculate_mae(ai, human) ==
    IF KeysDiffer(ai, human)
    THEN [raised |-> TRUE, exc |-> MismatchError, value |-> None,
          ai_scores |-> ai, human_scores |-> human]
    ELSE LET acc == LoopKpis(DOMAIN ai, ai, human,
                        [kpi_differences |-> EmptyDict, total_difference |-> 0])
             num_kpis == Cardinality(DOMAIN ai)
             m == IF num_kpis > 0 THEN Rat(acc.total_difference, num_kpis)
                  ELSE Rat(0, 1)
         IN  [raised |-> FALSE, exc |-> None,
              value |-> MAEResult(m, acc.total_difference, num_kpis,
                                  acc.kpi_differences, interpret_mae(m)),
              ai_scores |-> ai, human_scores |-> human]

----------------------------------------------------------------------------
(* calculate_batch_mae helpers *)

AppendResult_front(rs, r) == <<r>> \o rs

AppendResult(rs, r) == Append(rs, r)

RECURSIVE SumMae(_)
SumMae(rs) ==
    IF rs = <<>> THEN Rat(0, 1) ELSE RatAdd(rs[1].mae, SumMae(Tail(rs)))

AvgMae(rs) ==
    IF rs # <<>>
    THEN LET s == SumMae(rs) IN Rat(s.num, s.den * Len(rs))
    ELSE Rat(0, 1)

----------------------------------------------------------------------------
(* What the caller may pass *)

Kpis == {KPIS[j] : j \in 1..MaxKpis}

ScoreSets == UNION {[ks -> 0..MaxScore] : ks \in SUBSET Kpis}

BatchScoreSets == UNION {[ks -> 0..BatchMaxScore] : ks \in SUBSET {KPIS[3]}}

\* chats of n records; record j carries the identifier of position j.
ChatId(j) == ToString(27811315 + j)

ChatLists ==
    UNION {
        {[j \in 1..n |-> [chat_id |-> ChatId(j),
                          ai_scores |-> p[j][1],
                          human_scores |-> p[j][2]]] :
            p \in [1..n -> BatchScoreSets \X BatchScoreSets]} :
        n \in 0..MaxChats}

ExampleAi ==
    [IssueIdentification |-> 4, ResolutionCompliance |-> 3, Clarity |-> 2,
     Retention |-> 2, Sentiment |-> 3, CustomerCentricity |-> 4]

ExampleHuman ==
    [IssueIdentification |-> 4, ResolutionCompliance |-> 3, Clarity |-> 2,
     Retention |-> 2, Sentiment |-> 4, CustomerCentricity |-> 3]

ExampleChats ==
    << [chat_id |-> "27811316", ai_scores |-> ExampleAi,
        human_scores |-> ExampleHuman],
       [chat_id |-> "27811317",
        ai_scores |->
            [IssueIdentification |-> 3, ResolutionCompliance |-> 2,
             Clarity |-> 3, Retention |-> 3, Sentiment |-> 4,
             CustomerCentricity |-> 3],
        human_scores |->
            [IssueIdentification |-> 4, ResolutionCompliance |-> 3,
             Clarity |-> 2, Retention |-> 3, Sentiment |-> 4,
             CustomerCentricity |-> 4]] >>

MaeInputs == {Rat(n, 100) : n \in (0 - NegHundredths)..MaxHundredths}

----------------------------------------------------------------------------
(* The state machine *)

Init ==
    /\ pc = "idle"
    /\ op = "none"
    /\ ai_scores = EmptyDict
    /\ human_scores = EmptyDict
    /\ mae = Rat(0, 1)
    /\ chats = <<>>
    /\ results = <<>>
    /\ idx = 0
    /\ ret = None
    /\ exc = None

\* Calls are synchronous: the caller builds arguments only between calls.
CallerFree == pc = "idle"

\* The caller has rendered the outcome of a call and drops it.
Discard ==
    /\ pc \in {"returned", "raised"}
    /\ pc' = "idle"
    /\ op' = "none"
    /\ ai_scores' = EmptyDict
    /\ human_scores' = EmptyDict
    /\ mae' = Rat(0, 1)
    /\ chats' = <<>>
    /\ results' = <<>>
    /\ idx' = 0
    /\ ret' = None
    /\ exc' = None

\* The caller builds two score dictionaries (sliders, CSV cells, literals).
BuildScores ==
    /\ CallerFree
    /\ \E a \in ScoreSets, h \in ScoreSets :
           /\ ai_scores' = a
           /\ human_scores' = h
    /\ pc' = "ready"
    /\ op' = "calculate_mae"
    /\ mae' = Rat(0, 1)
    /\ chats' = <<>>
    /\ results' = <<>>
    /\ idx' = 0
    /\ ret' = None
    /\ exc' = None

\* The caller takes the example dictionaries of ChatID 27811316.
QuickTest ==
    /\ CallerFree
    /\ ai_scores' = ExampleAi
    /\ human_scores' = ExampleHuman
    /\ pc' = "ready"
    /\ op' = "calculate_mae"
    /\ mae' = Rat(0, 1)
    /\ chats' = <<>>
    /\ results' = <<>>
    /\ idx' = 0
    /\ ret' = None
    /\ exc' = None

\* The caller picks a value to interpret.
ChooseMae ==
    /\ CallerFree
    /\ \E m \in MaeInputs : mae' = m
    /\ pc' = "ready"
    /\ op' = "interpret_mae"
    /\ ai_scores' = EmptyDict
    /\ human_scores' = EmptyDict
    /\ chats' = <<>>
    /\ results' = <<>>
    /\ idx' = 0
    /\ ret' = None
    /\ exc' = None

\* The caller builds a list of chats.
BuildChats ==
    /\ CallerFree
    /\ \E cs \in ChatLists : chats' = cs
    /\ pc' = "ready"
    /\ op' = "calculate_batch_mae"
    /\ ai_scores' = EmptyDict
    /\ human_scores' = EmptyDict
    /\ mae' = Rat(0, 1)
    /\ results' = <<>>
    /\ idx' = 0
    /\ ret' = None
    /\ exc' = None

\* The caller takes the two example chats.
BatchExample ==
    /\ CallerFree
    /\ chats' = ExampleChats
    /\ pc' = "ready"
    /\ op' = "calculate_batch_mae"
    /\ ai_scores' = EmptyDict
    /\ human_scores' = EmptyDict
    /\ mae' = Rat(0, 1)
    /\ results' = <<>>
    /\ idx' = 0
    /\ ret' = None
    /\ exc' = None

CallCalculateMae ==
    /\ pc = "ready"
    /\ op = "calculate_mae"
    /\ LET out == calculate_mae(ai_scores, human_scores)
       IN  /\ pc' = IF out.raised THEN "raised" ELSE "returned"
           /\ ret' = out.value
           /\ exc' = out.exc
           /\ ai_scores' = out.ai_scores
           /\ human_scores' = out.human_scores
    /\ UNCHANGED <<op, mae, chats, results, idx>>

CallInterpretMae ==
    /\ pc = "ready"
    /\ op = "interpret_mae"
    /\ pc' = "returned"
    /\ ret' = [kind |-> "str", value |-> interpret_mae(mae)]
    /\ UNCHANGED <<op, ai_scores, human_scores, mae, chats, results, idx, exc>>

\* calculate_batch_mae: results = [] and the loop is entered.
BatchEnter ==
    /\ pc = "ready"
    /\ op = "calculate_batch_mae"
    /\ pc' = "loop"
    /\ results' = <<>>
    /\ idx' = 1
    /\ UNCHANGED <<op, ai_scores, human_scores, mae, chats, ret, exc>>

\* A variant that skips a record whose call raises.
BatchIter_skip ==
    /\ pc = "loop"
    /\ idx <= Len(chats)
    /\ LET chat == chats[idx]
           out == calculate_mae(chat.ai_scores, chat.human_scores)
       IN  /\ chats' = [chats EXCEPT ![idx].ai_scores = out.ai_scores,
                                     ![idx].human_scores = out.human_scores]
           /\ results' = IF out.raised THEN results
                         ELSE AppendResult(results, out.value)
           /\ idx' = idx + 1
           /\ UNCHANGED <<pc, exc>>
    /\ UNCHANGED <<op, ai_scores, human_scores, mae, ret>>

\* A variant that reports the record it failed on.
BatchIter_tagged ==
    /\ pc = "loop"
    /\ idx <= Len(chats)
    /\ LET chat == chats[idx]
           out == calculate_mae(chat.ai_scores, chat.human_scores)
       IN  /\ chats' = [chats EXCEPT ![idx].ai_scores = out.ai_scores,
                                     ![idx].human_scores = out.human_scores]
           /\ IF out.raised
              THEN /\ pc' = "raised"
                   /\ exc' = [out.exc EXCEPT !.args = Append(@, chat.chat_id)]
                   /\ UNCHANGED <<results, idx>>
              ELSE /\ results' = AppendResult(results, out.value)
                   /\ idx' = idx + 1
                   /\ UNCHANGED <<pc, exc>>
    /\ UNCHANGED <<op, ai_scores, human_scores, mae, ret>>

\* One iteration of "for chat in chats": the call, then the append; an
\* exception of the call leaves the function at once.
BatchIter ==
    /\ pc = "loop"
    /\ idx <= Len(chats)
    /\ LET chat == chats[idx]
           out == calculate_mae(chat.ai_scores, chat.human_scores)
       IN  /\ chats' = [chats EXCEPT ![idx].ai_scores = out.ai_scores,
                                     ![idx].human_scores = out.human_scores]
           /\ IF out.raised
              THEN /\ pc' = "raised"
                   /\ exc' = out.exc
                   /\ UNCHANGED <<results, idx>>
              ELSE /\ results' = AppendResult(results, out.value)
                   /\ idx' = idx + 1
                   /\ UNCHANGED <<pc, exc>>
    /\ UNCHANGED <<op, ai_scores, human_scores, mae, ret>>

\* The loop is over: the average is computed and the tuple returned.
BatchReturn ==
    /\ pc = "loop"
    /\ idx > Len(chats)
    /\ pc' = "returned"
    /\ ret' = [kind |-> "tuple", avg_mae |-> AvgMae(results), results |-> results]
    /\ UNCHANGED <<op, ai_scores, human_scores, mae, chats, results, idx, exc>>

Next ==
    \/ BuildScores
    \/ QuickTest
    \/ ChooseMae
    \/ BuildChats
    \/ BatchExample
    \/ CallCalculateMae
    \/ CallInterpretMae
    \/ BatchEnter
    \/ BatchIter
    \/ BatchReturn
    \/ Discard

Spec == Init /\ [][Next]_vars

----------------------------------------------------------------------------
(* Properties *)

Excellent == "Excellent (matches human analyst very closely)"
Good == "Good (production-ready)"
Acceptable == "Acceptable (needs minor calibration)"
Poor == "Poor (needs major fixes)"

CompareDone == op = "calculate_mae" /\ pc \in {"returned", "raised"}
CompareReturned == op = "calculate_mae" /\ pc = "returned"
InterpretReturned == op = "interpret_mae" /\ pc = "returned"
BatchReturned == op = "calculate_batch_mae" /\ pc = "returned"
BatchRaised == op = "calculate_batch_mae" /\ pc = "raised"

AbsDiff(x, y) == IF x >= y THEN x - y ELSE y - x

RECURSIVE SumAbs(_, _, _)
SumAbs(keys, a, b) ==
    IF keys = {} THEN 0
    ELSE LET k == CHOOSE x \in keys : TRUE
         IN  AbsDiff(a[k], b[k]) + SumAbs(keys \ {k}, a, b)

Mismatched(chat) == DOMAIN chat.ai_scores # DOMAIN chat.human_scores

MismatchedAt(cs) == {j \in 1..Len(cs) : Mismatched(cs[j])}

FirstMismatch(cs) ==
    CHOOSE j \in MismatchedAt(cs) : \A k \in MismatchedAt(cs) : j <= k

\* Whether fraction m is the arithmetic mean of the fractions rs[1..n].mae:
\* m * n equals their sum.
RECURSIVE ExactSum(_, _)
ExactSum(rs, n) ==
    IF n = 0 THEN Rat(0, 1)
    ELSE LET t == ExactSum(rs, n - 1)
         IN  Rat(t.num * rs[n].mae.den + rs[n].mae.num * t.den,
                 t.den * rs[n].mae.den)

IsMeanOf(m, rs) ==
    LET t == ExactSum(rs, Len(rs))
    IN  m.den > 0 /\ m.num * Len(rs) * t.den = t.num * m.den

\* C1: whenever the two key sets are not exactly equal (a strict subset or
\* superset included), calculate_mae raises the ValueError and returns no
\* result.
C1_MismatchRaises ==
    (CompareDone /\ DOMAIN ai_scores # DOMAIN human_scores) =>
        /\ pc = "raised"
        /\ exc = MismatchError
        /\ ret = None

C1_Witness ==
    /\ op = "calculate_mae"
    /\ pc = "raised"
    /\ DOMAIN ai_scores # DOMAIN human_scores
    /\ DOMAIN ai_scores \subseteq DOMAIN human_scores
    /\ DOMAIN ai_scores # {}

\* C2: with identical key sets calculate_mae returns kpi_differences[k] =
\* |ai[k] - human[k]| for exactly the keys given, total_difference their
\* sum, num_kpis the number of keys, and mae = total_difference / num_kpis
\* when num_kpis > 0; the reference example gives a total of 2 over 6 KPIs,
\* with 1 at Sentiment and CustomerCentricity and 0 elsewhere, within 0.01
\* of 0.33.
C2_CompareResult ==
    (CompareDone /\ DOMAIN ai_scores = DOMAIN human_scores) =>
        /\ pc = "returned"
        /\ ret.kind = "MAEResult"
        /\ DOMAIN ret.kpi_differences = DOMAIN ai_scores
        /\ \A k \in DOMAIN ai_scores :
               ret.kpi_differences[k] = AbsDiff(ai_scores[k], human_scores[k])
        /\ ret.total_difference = SumAbs(DOMAIN ai_scores, ai_scores, human_scores)
        /\ ret.num_kpis = Cardinality(DOMAIN ai_scores)
        /\ (ret.num_kpis > 0 =>
               /\ ret.mae.den > 0
               /\ ret.mae.num * ret.num_kpis = ret.total_difference * ret.mae.den)
        /\ ((ai_scores = ExampleAi /\ human_scores = ExampleHuman) =>
               /\ ret.total_difference = 2
               /\ ret.num_kpis = 6
               /\ \A k \in DOMAIN ai_scores :
                      ret.kpi_differences[k] =
                          IF k \in {"Sentiment", "CustomerCentricity"} THEN 1 ELSE 0
               /\ RatLt(ret.mae, Rat(34, 100))
               /\ RatLt(Rat(32, 100), ret.mae)
               /\ ret.interpretation = Excellent)

C2_Witness ==
    /\ CompareReturned
    /\ ai_scores = ExampleAi
    /\ human_scores = ExampleHuman
    /\ ret.total_difference = 2

C4_BoundaryInBetterTier ==
    InterpretReturned =>
        /\ (mae = Rat(50, 100) => ret.value = Excellent)
        /\ (mae = Rat(75, 100) => ret.value = Good)
        /\ (mae = Rat(100, 100) => ret.value = Acceptable)

\* C4 amended: the tiers are half-open intervals closed on the left: each
\* boundary value (0.50, 0.75, 1.00) belongs to the higher (worse) of the
\* two tiers it separates, and the value just below it to the better one.
C4_BoundaryInWorseTier ==
    InterpretReturned =>
        /\ (mae = Rat(50, 100) => ret.value = Good)
        /\ (mae = Rat(75, 100) => ret.value = Acceptable)
        /\ (mae = Rat(100, 100) => ret.value = Poor)
        /\ (mae = Rat(49, 100) => ret.value = Excellent)
        /\ (mae = Rat(74, 100) => ret.value = Good)
        /\ (mae = Rat(99, 100) => ret.value = Acceptable)

C4_Witness ==
    /\ InterpretReturned
    /\ mae = Rat(75, 100)
    /\ ret.value = Acceptable

\* C5: when every record's two key sets match, calculate_batch_mae returns
\* one result per record, the i-th being calculate_mae of the i-th record's
\* pair, and the arithmetic mean of their mae values; for an empty list it
\* returns an empty list and 0.0.
C5_BatchResult ==
    (op = "calculate_batch_mae" /\ pc \in {"returned", "raised"}
        /\ MismatchedAt(chats) = {}) =>
        /\ pc = "returned"
        /\ ret.kind = "tuple"
        /\ Len(ret.results) = Len(chats)
        /\ \A j \in 1..Len(chats) :
               /\ ret.results[j].kind = "MAEResult"
               /\ DOMAIN ret.results[j].kpi_differences = DOMAIN chats[j].ai_scores
               /\ \A k \in DOMAIN chats[j].ai_scores :
                      ret.results[j].kpi_differences[k] =
                          AbsDiff(chats[j].ai_scores[k], chats[j].human_scores[k])
               /\ ret.results[j] =
                      calculate_mae(chats[j].ai_scores, chats[j].human_scores).value
        /\ (chats # <<>> => IsMeanOf(ret.avg_mae, ret.results))
        /\ (chats = <<>> => ret.results = <<>> /\ ret.avg_mae = Rat(0, 1))

C5_Witness ==
    /\ BatchReturned
    /\ Len(chats) >= 2
    /\ ~RatEq(ret.results[1].mae, ret.results[2].mae)
    /\ RatLt(Rat(0, 1), ret.avg_mae)

\* C6: calculate_batch_mae is all-or-nothing and fail-fast: with a
\* mismatched record in the list it never returns, the loop never goes past
\* the earliest mismatched record, and when it has failed it has failed
\* there, with the ValueError and with neither an average nor a list of
\* results returned.
C6_FailFast ==
    (op = "calculate_batch_mae" /\ pc \in {"loop", "returned", "raised"}
        /\ MismatchedAt(chats) # {}) =>
        /\ pc # "returned"
        /\ idx <= FirstMismatch(chats)
        /\ ret = None
        /\ (pc = "raised" =>
               /\ idx = FirstMismatch(chats)
               /\ Len(results) = idx - 1
               /\ exc.kind = "ValueError")
        /\ (pc = "loop" => exc = None)

C6_Witness ==
    /\ BatchRaised
    /\ Len(chats) >= 2
    /\ ~Mismatched(chats[1])
    /\ idx = 2
    /\ Len(results) = 1
    /\ ret = None

C8_EmptyAccepted ==
    (CompareDone /\ DOMAIN ai_scores = {} /\ DOMAIN human_scores = {}) =>
        /\ pc = "returned"
        /\ exc = None
        /\ ret.num_kpis = 0
        /\ ret.total_difference = 0
        /\ ret.kpi_differences = EmptyDict
        /\ ret.mae = Rat(0, 1)
        /\ ret.interpretation = Excellent

C8_Witness ==
    /\ CompareReturned
    /\ ai_scores = EmptyDict
    /\ human_scores = EmptyDict
    /\ ret.num_kpis = 0

\* C9: calculate_mae is symmetric: with identical key sets, the call with
\* the arguments exchanged yields the same mae and the same interpretation.
C9_Symmetric ==
    CompareReturned =>
        LET swapped == calculate_mae(human_scores, ai_scores)
        IN  /\ ~swapped.raised
            /\ RatEq(ret.mae, swapped.value.mae)
            /\ ret.interpretation = swapped.value.interpretation

C9_Witness ==
    /\ CompareReturned
    /\ \E k \in DOMAIN ai_scores : ai_scores[k] < human_scores[k]
    /\ \E k \in DOMAIN ai_scores : ai_scores[k] > human_scores[k]
    /\ ret.mae.num > 0

InputsKept ==
    pc \in {"ready", "loop"} =>
        (ai_scores' = ai_scores /\ human_scores' = human_scores /\ chats' = chats)

\* C10: neither calculate_mae nor calculate_batch_mae changes its
\* arguments: every step of a call, returning or raising, leaves both
\* dictionaries and the list of chats (identifiers included) as they were.
C10_InputsUnchanged == [][InputsKept]_vars

C10_Witness ==
    /\ BatchRaised
    /\ Len(chats) >= 2
    /\ idx = 2
    /\ chats[1].ai_scores # chats[1].human_scores
    /\ results[1].total_difference > 0

====
